---------------------------- MODULE Spec2Model ----------------------------
(***************************************************************************)
(* A model of local_carddav_server.py: a Flask application that caches the *)
(* contact cards of a remote CardDAV collection as files of a local         *)
(* directory, serves OPTIONS / PROPFIND / GET / PUT from that directory and *)
(* forwards every PUT to the origin.                                        *)
(*                                                                         *)
(* What is modelled and how:                                               *)
(*  - a payload on the wire is a sequence of bytes, a Python str is a       *)
(*    sequence of code points; request.get_data(as_text=True), Response.text*)
(*    and Path.write_text are modelled as the decoding / encoding they do   *)
(*    (the process runs with a UTF-8 locale on a POSIX system, so           *)
(*    write_text encodes as UTF-8 and translates no line ending);           *)
(*  - the cache directory is a function from the names of the files in it   *)
(*    to their bytes;                                                       *)
(*  - the origin is the environment: what it answers to the PROPFIND and to *)
(*    each GET is chosen when the answer is first needed and remembered      *)
(*    until the server starts serving, so that a second run of the sync     *)
(*    against an unchanged origin sees the same answers;                    *)
(*  - a handler is a sequence of steps (one per file-system or network      *)
(*    call), run by one of the worker threads of the development server.    *)
(*    Under Spec the requests are served one at a time; under SpecThreaded  *)
(*    two requests may interleave.                                          *)
(*  - the routing and URL decoding done by Flask before a handler is called *)
(*    are not modelled: a request reaches the model as (method, uid, body,  *)
(*    credentials).                                                         *)
(***************************************************************************)
EXTENDS Integers, Sequences, FiniteSets, TLC

(***************************************************************************)
(* Bounds of the model.                                                    *)
(***************************************************************************)
\* How many times the process is started again after its first start.
MaxRestarts == 2
\* How many local-storage failures (a failing open or write of a cache file)
\* the environment injects in one behaviour.
MaxFaults == 1

(***************************************************************************)
(* Python values.                                                          *)
(***************************************************************************)
\* Python's None and a present value, as sequences of length 0 and 1.
None == << >>
Some(v) == << v >>

\* `not x` for an Optional[str]: None and the empty string are falsy.
Falsy(x) == x = None \/ x = Some("")

(***************************************************************************)
(* Text encodings.  A str is a sequence of code points, bytes a sequence   *)
(* of numbers in 0..255.                                                   *)
(***************************************************************************)
REPLACEMENT == 65533  \* U+FFFD, what errors="replace" decodes a bad byte to

IsCont(b) == b >= 128 /\ b <= 191

\* The number of bytes the UTF-8 sequence led by byte b needs (0: b cannot
\* lead a sequence).
Utf8Need(b) ==
    IF b < 128 THEN 1
    ELSE IF b >= 194 /\ b <= 223 THEN 2
    ELSE IF b >= 224 /\ b <= 239 THEN 3
    ELSE IF b >= 240 /\ b <= 244 THEN 4
    ELSE 0

\* Whether byte c may follow lead byte b as the second byte of its sequence
\* (no overlong form, no surrogate, nothing above U+10FFFF).
Utf8SecondOk(b, c) ==
    /\ IsCont(c)
    /\ (b = 224 => c >= 160)
    /\ (b = 237 => c <= 159)
    /\ (b = 240 => c >= 144)
    /\ (b = 244 => c <= 143)

\* How many bytes of s, from position i, form a valid prefix of the sequence
\* led by s[i] (the whole sequence when it is valid).
Utf8Good(s, i) ==
    LET need == Utf8Need(s[i])
        ok(k) == /\ i + k <= Len(s)
                 /\ IF k = 1 THEN Utf8SecondOk(s[i], s[i + 1]) ELSE IsCont(s[i + k])
    IN  IF need <= 1 THEN 1
        ELSE IF ~ok(1) THEN 1
        ELSE IF need = 2 \/ ~ok(2) THEN 2
        ELSE IF need = 3 \/ ~ok(3) THEN 3
        ELSE 4

Utf8CodePoint(s, i, n) ==
    IF n = 1 THEN s[i]
    ELSE IF n = 2 THEN (s[i] - 192) * 64 + (s[i + 1] - 128)
    ELSE IF n = 3 THEN (s[i] - 224) * 4096 + (s[i + 1] - 128) * 64 + (s[i + 2] - 128)
    ELSE (s[i] - 240) * 262144 + (s[i + 1] - 128) * 4096
             + (s[i + 2] - 128) * 64 + (s[i + 3] - 128)

\* bytes.decode("utf-8", errors="replace"): every maximal invalid part is
\* one U+FFFD.
RECURSIVE DecodeUtf8From(_, _)
DecodeUtf8From(s, i) ==
    IF i > Len(s) THEN << >>
    ELSE LET need == Utf8Need(s[i])
             good == Utf8Good(s, i)
         IN  IF need >= 1 /\ good = need
             THEN << Utf8CodePoint(s, i, need) >> \o DecodeUtf8From(s, i + need)
             ELSE << REPLACEMENT >> \o DecodeUtf8From(s, i + good)

DecodeUtf8(s) == DecodeUtf8From(s, 1)

\* bytes.decode("ISO-8859-1"): every byte is the code point of its value.
DecodeLatin1(s) == [i \in 1..Len(s) |-> s[i]]

\* str.encode("utf-8") of one code point.
EncodeCodePoint(c) ==
    IF c < 128 THEN << c >>
    ELSE IF c < 2048 THEN << 192 + (c \div 64), 128 + (c % 64) >>
    ELSE IF c < 65536
         THEN << 224 + (c \div 4096), 128 + ((c \div 64) % 64), 128 + (c % 64) >>
    ELSE << 240 + (c \div 262144), 128 + ((c \div 4096) % 64),
            128 + ((c \div 64) % 64), 128 + (c % 64) >>

RECURSIVE EncodeUtf8(_)
EncodeUtf8(text) ==
    IF text = << >> THEN << >>
    ELSE EncodeCodePoint(Head(text)) \o EncodeUtf8(Tail(text))


(***************************************************************************)
(* The values the environment draws its inputs from.                       *)
(***************************************************************************)
\* The identifiers a client asks for: the <uid> of the route /<uid>.vcf.
Uids == {"alice", "bob"}

\* The bodies of the PUT requests: "A", and one byte that is no UTF-8.
PutBodies == { <<65>>, <<255>> }

\* The credentials a request carries: none, the right pair, a wrong pair.
RequestAuths == { None, Some(<<"admin", "secret">>), Some(<<"admin", "wrong">>) }

\* The configurations: CARDDAV_URL set or not, and LOCAL_USERNAME and
\* LOCAL_PASSWORD both unset, both set to the empty string, both set, or only
\* the first set.
LocalCredentials ==
    { <<None, None>>, <<Some(""), Some("")>>, <<Some("admin"), Some("secret")>>,
      <<Some("admin"), None>> }

Configs ==
    { [CARDDAV_URL |-> u, LOCAL_USERNAME |-> c[1], LOCAL_PASSWORD |-> c[2]] :
        u \in {None, Some("http://origin/dav/")}, c \in LocalCredentials }

\* An href of the origin's multistatus body: the directory part, the stem of
\* its last segment and that segment's extension.
Href(dir, stem, ext) == [dir |-> dir, stem |-> stem, ext |-> ext]
hCollection == Href("/dav/", "", "")
hAlice == Href("/dav/", "alice", ".vcf")
hBob == Href("/dav/", "bob", ".vcf")
hOldAlice == Href("/old/", "alice", ".vcf")

\* The multistatus bodies of the origin, as the sequence of their hrefs: an
\* empty collection, one card, two cards, two hrefs with the same file name.
Listings ==
    { << hCollection >>,
      << hCollection, hAlice >>,
      << hCollection, hAlice, hBob >>,
      << hAlice, hOldAlice >> }

\* What the origin answers to the PROPFIND: a transport error, or a status
\* and a body.  A status outside 200..299 comes with a body that lists a card.
DiscoveryAnswers ==
    { [error |-> TRUE, status |-> 0, hrefs |-> << >>] }
    \cup { [error |-> FALSE, status |-> st, hrefs |-> << hCollection, hAlice >>] :
             st \in {199, 300} }
    \cup { [error |-> FALSE, status |-> 207, hrefs |-> l] : l \in Listings }

\* The cards of the origin: the bytes and the charset that Response.text
\* decodes them with (the charset of the Content-Type header, ISO-8859-1
\* for a text/* type that names none).
Cards ==
    { [bytes |-> <<66>>, charset |-> "utf-8"],
      [bytes |-> <<195, 169>>, charset |-> "utf-8"],
      [bytes |-> <<195, 169>>, charset |-> "ISO-8859-1"] }

\* What the origin answers to the GET of one href: a transport error, or a
\* status and a card.
FetchAnswers ==
    { [error |-> TRUE, status |-> 0, card |-> [bytes |-> << >>, charset |-> "utf-8"]] }
    \cup { [error |-> FALSE, status |-> st, card |-> [bytes |-> <<66>>, charset |-> "utf-8"]] :
             st \in {204, 404} }
    \cup { [error |-> FALSE, status |-> 200, card |-> c] : c \in Cards }

\* What happens to the PUT that forwards a record to the origin.
PushOutcomes == {"ok", "error_status", "transport_error"}

Threads == {1, 2}

(***************************************************************************)
(* The cache directory: a function from the names of its files to bytes.   *)
(***************************************************************************)
EmptyDir == << >>

Exists(dir, name) == name \in DOMAIN dir

WithFile(dir, name, bytes) ==
    [n \in DOMAIN dir \cup {name} |-> IF n = name THEN bytes ELSE dir[n]]

\* The proper prefixes of a byte sequence: what a write that fails part-way
\* may leave in the file it has truncated.
ProperPrefixes(bytes) == { SubSeq(bytes, 1, k) : k \in 0..(Len(bytes) - 1) }

\* Path.write_text(data) opens the file with mode "w", which creates or
\* truncates it, and then writes the encoded text.  Each step has its
\* outcomes, as [dir, ok]; a failure is possible while the environment may
\* still inject one.

\* The open: done, or it fails and nothing changes.
OpenOutcomes(dir, name, mayFail) ==
    { [dir |-> WithFile(dir, name, << >>), ok |-> TRUE] }
    \cup ( IF mayFail THEN { [dir |-> dir, ok |-> FALSE] } ELSE { } )

\* A write of bytes at offset 0 of a file that holds old: the bytes of old
\* beyond the written ones stay (the file was opened without O_APPEND and
\* its handle has its own offset).
WriteAtStart(old, bytes) == bytes \o SubSeq(old, Len(bytes) + 1, Len(old))

\* A bug: a write that fails removes the file it was writing.
WriteOutcomesUnlinking(dir, name, text, mayFail) ==
    { [dir |-> WithFile(dir, name, EncodeUtf8(text)), ok |-> TRUE] }
    \cup ( IF mayFail
           THEN { [dir |-> [n \in DOMAIN dir \ {name} |-> dir[n]], ok |-> FALSE] }
           ELSE { } )

\* The write to the opened file, at the offset of its handle, which is 0:
\* done, or it fails part-way.  The file is empty when nothing else has
\* written to it since the open.
WriteOutcomes(dir, name, text, mayFail) ==
    LET old == IF Exists(dir, name) THEN dir[name] ELSE << >>
    IN  { [dir |-> WithFile(dir, name, WriteAtStart(old, EncodeUtf8(text))),
           ok |-> TRUE] }
        \cup ( IF mayFail
               THEN { [dir |-> WithFile(dir, name, WriteAtStart(old, p)),
                       ok |-> FALSE] :
                        p \in ProperPrefixes(EncodeUtf8(text)) \cup { << >> } }
               ELSE { } )

\* A bug: the sync as a refresh that empties the directory it writes to.
WriteTextPruning(dir, name, text, mayFail) ==
    { [dir |-> WithFile(EmptyDir, name, EncodeUtf8(text)), ok |-> TRUE] }

\* A bug: the file opened with mode "a".
WriteTextAppending(dir, name, text, mayFail) ==
    { [dir |-> WithFile(dir, name,
                        (IF Exists(dir, name) THEN dir[name] ELSE << >>)
                            \o EncodeUtf8(text)),
       ok |-> TRUE] }

\* The whole call.
WriteTextOutcomes(dir, name, text, mayFail) ==
    UNION { IF o.ok THEN WriteOutcomes(o.dir, name, text, mayFail) ELSE { o } :
              o \in OpenOutcomes(dir, name, mayFail) }

\* request.get_data(as_text=True): the body decoded as UTF-8, errors="replace".
GetDataAsText(body) == DecodeUtf8(body)

\* Response.text: the content decoded with the response's encoding.
ResponseText(card) ==
    IF card.charset = "ISO-8859-1" THEN DecodeLatin1(card.bytes)
    ELSE DecodeUtf8(card.bytes)

\* f"{uid}.vcf"
VcfName(uid) == uid \o ".vcf"

\* Path(href).name: the last segment of the href.
HrefName(href) == href.stem \o href.ext

\* re.findall(r"<(?:\w+:)?href>([^<]+\.vcf)</(?:\w+:)?href>", res.text): the
\* hrefs that end in .vcf, in the order of the body.
FindHrefs(hrefs) == SelectSeq(hrefs, LAMBDA h : h.ext = ".vcf")

\* CACHE_DIR.glob("*.vcf"): every file the server creates is named by VcfName
\* or by HrefName of an href FindHrefs kept, so the pattern is the set of file
\* names built from a stem.
Stems == Uids
VcfNames == { VcfName(s) : s \in Stems }
Glob(dir) == { n \in DOMAIN dir : n \in VcfNames }

RECURSIVE SetToSeq(_)
SetToSeq(S) ==
    IF S = { } THEN << >>
    ELSE LET x == CHOOSE y \in S : TRUE IN << x >> \o SetToSeq(S \ {x})

\* A bug: the href without its leading slash.
build_listing_no_slash(dir) == SetToSeq(Glob(dir))

\* build_listing(): one <response><href>/NAME</href></response> per file of
\* the glob, as the sequence of the hrefs.
build_listing(dir) ==
    LET names == SetToSeq(Glob(dir))
    IN  [i \in 1..Len(names) |-> "/" \o names[i]]

(***************************************************************************)
(* Authentication.                                                         *)
(***************************************************************************)
\* A bug: only the user name is compared.
check_auth_username_only(cfg, username, password) ==
    IF Falsy(cfg.LOCAL_USERNAME) /\ Falsy(cfg.LOCAL_PASSWORD) THEN TRUE
    ELSE Some(username) = cfg.LOCAL_USERNAME

\* check_auth(username, password)
check_auth(cfg, username, password) ==
    IF Falsy(cfg.LOCAL_USERNAME) /\ Falsy(cfg.LOCAL_PASSWORD) THEN TRUE
    ELSE Some(username) = cfg.LOCAL_USERNAME /\ Some(password) = cfg.LOCAL_PASSWORD

\* requires_auth: whether the decorated handler is called (otherwise the
\* request is answered by authenticate(), a 401).
requires_auth(cfg, auth) ==
    IF Falsy(cfg.LOCAL_USERNAME) /\ Falsy(cfg.LOCAL_PASSWORD) THEN TRUE
    ELSE IF auth = None \/ ~check_auth(cfg, auth[1][1], auth[1][2]) THEN FALSE
    ELSE TRUE

(***************************************************************************)
(* The state.                                                              *)
(***************************************************************************)
VARIABLES
    config,     \* CARDDAV_URL, LOCAL_USERNAME, LOCAL_PASSWORD: read at import
    serial,     \* TRUE: the requests are served one at a time
    phase,      \* "boot", "sync" (in the loop of sync_remote), "synced"
                \* (sync_remote has returned), "serving" (app.run), "crashed"
    hrefs,      \* sync_remote: the list re.findall returned
    idx,        \* sync_remote: the position of the loop in hrefs
    files,      \* CACHE_DIR
    th,         \* the worker threads: the request each one handles
    remote,     \* the origin's answers, as far as this start has seen them
    restarts,   \* how many times the process was started again
    faults,     \* how many local-storage failures were injected
    syncStart,  \* history: CACHE_DIR when the last sync_remote began
    outcome,    \* history: how the last sync_remote ended
    prevEnd,    \* history: CACHE_DIR at the end of the run before this one,
                \* when this start directly follows it and the origin answers
                \* as it did
    wrote,      \* history: per file, who wrote it last and the bytes received
    e2e         \* history: first start, empty cache, every fetch answered
                \* 200, every PUT answered 204

vars == << config, serial, phase, hrefs, idx, files, th, remote, restarts,
           faults, syncStart, outcome, prevEnd, wrote, e2e >>

Unknown == [disc |-> None, fetch |-> << >>]

Idle ==
    [pc |-> "idle", method |-> "", uid |-> "", body |-> << >>, data |-> << >>,
     auth |-> None, status |-> 0, out |-> << >>, listing |-> << >>,
     pushed |-> None, storageError |-> FALSE]

Without(f, x) == [y \in DOMAIN f \ {x} |-> f[y]]

InitWith(s, configs) ==
    /\ config \in configs
    /\ serial = s
    /\ phase = "boot"
    /\ hrefs = << >>
    /\ idx = 0
    /\ files = EmptyDir
    /\ th = [t \in Threads |-> Idle]
    /\ remote = Unknown
    /\ restarts = 0
    /\ faults = 0
    /\ syncStart = EmptyDir
    /\ outcome = "none"
    /\ prevEnd = None
    /\ wrote = << >>
    /\ e2e = TRUE

Init == InitWith(TRUE, Configs)

\* The threaded server, with no local credentials configured (the gate
\* is the same for every thread and holds no state).
InitThreaded ==
    InitWith(FALSE, { c \in Configs : c.LOCAL_USERNAME = None /\ c.LOCAL_PASSWORD = None })

(***************************************************************************)
(* sync_remote                                                             *)
(***************************************************************************)
\* The answers the origin may give to the PROPFIND: the one it gave before,
\* when this start follows a run against the same origin.
DiscoveryChoices ==
    IF remote.disc = None THEN DiscoveryAnswers ELSE { remote.disc[1] }

FetchChoices(h) ==
    IF h \in DOMAIN remote.fetch THEN { remote.fetch[h] } ELSE FetchAnswers

\* A bug: the exception is logged and raised again.
SyncExceptReraises == "crashed"

\* except Exception as e: logger.exception(...): sync_remote returns.
SyncExcept == "synced"

\* A bug: the upper limit off by one.
DiscoveryFailedOffByOne(status) == status < 200 \/ status > 300

\* if res.status_code < 200 or res.status_code >= 300: return
DiscoveryFailed(status) == status < 200 \/ status >= 300

\* A bug: every 2xx status taken for a success.
FetchOkAny2xx(status) == status >= 200 /\ status < 300

\* if r.status_code == 200
FetchOk(status) == status = 200

\* Lines 71-84: the configuration check, the PROPFIND and re.findall.
SyncBegin ==
    /\ phase = "boot"
    /\ syncStart' = files
    /\ IF Falsy(config.CARDDAV_URL)
       THEN /\ phase' = "synced"
            /\ outcome' = "no_url"
            /\ UNCHANGED << hrefs, idx, remote, e2e >>
       ELSE \E a \in DiscoveryChoices :
              /\ remote' = [remote EXCEPT !.disc = Some(a)]
              /\ IF a.error
                 THEN /\ phase' = SyncExcept
                      /\ outcome' = "discovery_error"
                      /\ e2e' = FALSE
                      /\ UNCHANGED << hrefs, idx >>
                 ELSE IF DiscoveryFailed(a.status)
                 THEN /\ phase' = "synced"
                      /\ outcome' = "discovery_status"
                      /\ e2e' = FALSE
                      /\ UNCHANGED << hrefs, idx >>
                 ELSE /\ phase' = "sync"
                      /\ outcome' = "none"
                      /\ hrefs' = FindHrefs(a.hrefs)
                      /\ idx' = 1
                      /\ UNCHANGED e2e
    /\ UNCHANGED << config, serial, files, th, restarts, faults, prevEnd, wrote >>

\* Lines 86-92: one turn of the loop: the GET of hrefs[idx] and, on a 200,
\* the write of the cache file.
SyncFetch ==
    /\ phase = "sync"
    /\ idx <= Len(hrefs)
    /\ LET h == hrefs[idx]
           name == HrefName(h)
       IN \E a \in FetchChoices(h) :
            /\ remote' = [remote EXCEPT !.fetch =
                             [x \in DOMAIN remote.fetch \cup {h} |->
                                 IF x = h THEN a ELSE remote.fetch[x]]]
            /\ IF a.error
               THEN /\ phase' = SyncExcept
                    /\ outcome' = "fetch_error"
                    /\ e2e' = FALSE
                    /\ UNCHANGED << idx, files, faults, wrote >>
               ELSE IF FetchOk(a.status)
               THEN \E o \in WriteTextOutcomes(files, name, ResponseText(a.card),
                                               faults < MaxFaults) :
                      /\ files' = o.dir
                      /\ IF o.ok
                         THEN /\ idx' = idx + 1
                              /\ wrote' = WithFile(wrote, name,
                                                   [src |-> "sync", raw |-> a.card.bytes])
                              /\ UNCHANGED << phase, outcome, faults, e2e >>
                         ELSE /\ phase' = SyncExcept
                              /\ outcome' = "write_error"
                              /\ faults' = faults + 1
                              /\ wrote' = IF o.dir = files THEN wrote
                                          ELSE Without(wrote, name)
                              /\ e2e' = FALSE
                              /\ UNCHANGED idx
               ELSE /\ idx' = idx + 1
                    /\ e2e' = FALSE
                    /\ UNCHANGED << phase, outcome, files, faults, wrote >>
    /\ UNCHANGED << config, serial, hrefs, th, restarts, syncStart, prevEnd >>

\* Line 93: the loop is over.
SyncFinish ==
    /\ phase = "sync"
    /\ idx > Len(hrefs)
    /\ phase' = "synced"
    /\ outcome' = "complete"
    /\ UNCHANGED << config, serial, hrefs, idx, files, th, remote, restarts,
                    faults, syncStart, prevEnd, wrote, e2e >>

\* Lines 145-146: app.run starts to accept requests.
Serve ==
    /\ phase = "synced"
    /\ phase' = "serving"
    /\ hrefs' = << >>
    /\ idx' = 0
    /\ remote' = Unknown
    /\ syncStart' = EmptyDir
    /\ outcome' = "none"
    /\ prevEnd' = None
    /\ UNCHANGED << config, serial, files, th, restarts, faults, wrote, e2e >>

\* The process ends (between two requests, or before app.run has bound its
\* port) and is started again: the cache directory stays.  A start that
\* directly follows a run of sync_remote may find the origin as that run
\* found it.
Restart ==
    /\ phase \in {"synced", "serving"}
    /\ \A t \in Threads : th[t].pc = "idle"
    /\ restarts < MaxRestarts
    /\ restarts' = restarts + 1
    /\ phase' = "boot"
    /\ hrefs' = << >>
    /\ idx' = 0
    /\ syncStart' = EmptyDir
    /\ outcome' = "none"
    /\ e2e' = FALSE
    /\ \/ /\ phase = "synced"
          /\ remote' = remote
          /\ prevEnd' = IF outcome = "write_error" THEN None ELSE Some(files)
       \/ /\ remote' = Unknown
          /\ prevEnd' = None
    /\ UNCHANGED << config, serial, files, th, faults, wrote >>

(***************************************************************************)
(* The request handlers.                                                   *)
(***************************************************************************)
Methods == {"OPTIONS", "PROPFIND", "GET", "PUT"}

\* The requests of the four routes.
Requests ==
    { [method |-> m, uid |-> "", body |-> << >>] : m \in {"OPTIONS", "PROPFIND"} }
    \cup { [method |-> "GET", uid |-> u, body |-> << >>] : u \in Uids }
    \cup { [method |-> "PUT", uid |-> u, body |-> b] : u \in Uids, b \in PutBodies }

\* The response of thread t's handler.
Respond(t, status, out, listing) ==
    [th EXCEPT ![t].pc = "done", ![t].status = status, ![t].out = out,
               ![t].listing = listing]

\* authenticate(): Response("Authentication required", 401)
authenticate(t, r, auth) ==
    [th EXCEPT ![t] = [Idle EXCEPT !.pc = "done", !.method = r.method,
                                   !.uid = r.uid, !.body = r.body,
                                   !.auth = auth, !.status = 401]]

\* The handler the route of a method names.
Handler(method) ==
    CASE method = "OPTIONS" -> "options_root"
      [] method = "PROPFIND" -> "propfind_root"
      [] method = "GET" -> "get_contact"
      [] method = "PUT" -> "put_contact"

\* The credentials the requests carry: under the threaded specification,
\* which configures no local credentials, none.
OfferedAuths == IF serial THEN RequestAuths ELSE { None }

\* A bug: the server accepts requests before sync_remote has returned (the
\* sync started in the background, or app.run called first).
RequestBeforeSynced(t) ==
    /\ phase \in {"sync", "serving"}
    /\ th[t].pc = "idle"
    /\ \E r \in Requests :
         th' = [th EXCEPT ![t] = [Idle EXCEPT !.pc = Handler(r.method),
                                             !.method = r.method,
                                             !.uid = r.uid, !.body = r.body]]
    /\ UNCHANGED << config, serial, phase, hrefs, idx, files, remote, restarts,
                    faults, syncStart, outcome, prevEnd, wrote, e2e >>

\* A request arrives at an idle worker thread (the first idle one) and goes
\* through the decorator requires_auth: the handler is entered or the
\* request is answered 401.
Request(t) ==
    /\ phase = "serving"
    /\ th[t].pc = "idle"
    /\ \A u \in Threads : u < t => th[u].pc # "idle"
    /\ serial => \A u \in Threads : th[u].pc = "idle"
    /\ \E r \in Requests, auth \in OfferedAuths :
         th' = IF requires_auth(config, auth)
               THEN [th EXCEPT ![t] = [Idle EXCEPT !.pc = Handler(r.method),
                                                   !.method = r.method,
                                                   !.uid = r.uid, !.body = r.body,
                                                   !.auth = auth]]
               ELSE authenticate(t, r, auth)
    /\ UNCHANGED << config, serial, phase, hrefs, idx, files, remote, restarts,
                    faults, syncStart, outcome, prevEnd, wrote, e2e >>

\* options_root: an empty 200 with the Allow header.
options_root(t) ==
    /\ th[t].pc = "options_root"
    /\ th' = Respond(t, 200, << >>, << >>)
    /\ UNCHANGED << config, serial, phase, hrefs, idx, files, remote, restarts,
                    faults, syncStart, outcome, prevEnd, wrote, e2e >>

\* propfind_root: a 207 with the listing.
propfind_root(t) ==
    /\ th[t].pc = "propfind_root"
    /\ th' = Respond(t, 207, << >>, build_listing(files))
    /\ UNCHANGED << config, serial, phase, hrefs, idx, files, remote, restarts,
                    faults, syncStart, outcome, prevEnd, wrote, e2e >>

\* A bug: the check of the file left out.
FileMissingNever(dir, uid) == FALSE

\* file = CACHE_DIR / f"{uid}.vcf"; not file.exists()
FileMissing(dir, uid) == ~Exists(dir, VcfName(uid))

\* A bug: a read-through cache (a miss fetched from the origin and stored).
get_contact_read_through(t) ==
    /\ th[t].pc = "get_contact"
    /\ IF FileMissing(files, th[t].uid)
       THEN /\ files' = WithFile(files, VcfName(th[t].uid), <<66>>)
            /\ th' = Respond(t, 200, <<66>>, << >>)
       ELSE /\ files' = files
            /\ th' = [th EXCEPT ![t].pc = "send_file"]
    /\ UNCHANGED << config, serial, phase, hrefs, idx, remote, restarts,
                    faults, syncStart, outcome, prevEnd, wrote, e2e >>

\* get_contact, lines 124-126: if not file.exists(): abort(404)
get_contact(t) ==
    /\ th[t].pc = "get_contact"
    /\ th' = IF FileMissing(files, th[t].uid)
             THEN Respond(t, 404, << >>, << >>)
             ELSE [th EXCEPT ![t].pc = "send_file"]
    /\ UNCHANGED << config, serial, phase, hrefs, idx, files, remote, restarts,
                    faults, syncStart, outcome, prevEnd, wrote, e2e >>

\* get_contact, line 127: send_file reads the file; it raises, which Flask
\* answers with a 500, when there is no such file.
send_file(t) ==
    /\ th[t].pc = "send_file"
    /\ th' = IF Exists(files, VcfName(th[t].uid))
             THEN Respond(t, 200, files[VcfName(th[t].uid)], << >>)
             ELSE Respond(t, 500, << >>, << >>)
    /\ UNCHANGED << config, serial, phase, hrefs, idx, files, remote, restarts,
                    faults, syncStart, outcome, prevEnd, wrote, e2e >>

\* put_contact, lines 133-135: the body is decoded and write_text opens the
\* file, which creates or truncates it.  A failing open raises: a 500.
put_contact(t) ==
    /\ th[t].pc = "put_contact"
    /\ LET name == VcfName(th[t].uid)
           data == GetDataAsText(th[t].body)
       IN \E o \in OpenOutcomes(files, name, faults < MaxFaults) :
            /\ files' = o.dir
            /\ IF o.ok
               THEN /\ th' = [th EXCEPT ![t].pc = "write_text", ![t].data = data]
                    /\ UNCHANGED << faults, e2e >>
               ELSE /\ th' = [Respond(t, 500, << >>, << >>) EXCEPT
                                 ![t].storageError = TRUE]
                    /\ faults' = faults + 1
                    /\ e2e' = FALSE
    /\ UNCHANGED << config, serial, phase, hrefs, idx, remote, restarts,
                    syncStart, outcome, prevEnd, wrote >>

\* A bug: the write left for after the push (the file stays as the open
\* left it).
write_text_after_push(t) ==
    /\ th[t].pc = "write_text"
    /\ th' = [th EXCEPT ![t].pc = "push"]
    /\ UNCHANGED << config, serial, phase, hrefs, idx, files, remote, restarts,
                    faults, syncStart, outcome, prevEnd, wrote, e2e >>

\* put_contact, line 135: write_text writes the encoded text.  A write that
\* fails leaves a part of it and raises: a 500.
write_text(t) ==
    /\ th[t].pc = "write_text"
    /\ LET name == VcfName(th[t].uid)
       IN \E o \in WriteOutcomes(files, name, th[t].data, faults < MaxFaults) :
            /\ files' = o.dir
            /\ IF o.ok
               THEN /\ th' = [th EXCEPT ![t].pc = "push"]
                    /\ wrote' = WithFile(wrote, name,
                                         [src |-> "put", raw |-> th[t].body])
                    /\ UNCHANGED << faults, e2e >>
               ELSE /\ th' = [Respond(t, 500, << >>, << >>) EXCEPT ![t].storageError = TRUE]
                    /\ wrote' = Without(wrote, name)
                    /\ faults' = faults + 1
                    /\ e2e' = FALSE
    /\ UNCHANGED << config, serial, phase, hrefs, idx, remote, restarts,
                    syncStart, outcome, prevEnd >>

\* What put_contact answers once session.put has returned or raised: the
\* call is in no try block, so a transport error ends the handler with an
\* exception, which Flask answers with a 500.
PutStatus(pushOutcome) == IF pushOutcome = "transport_error" THEN 500 ELSE 204

\* put_contact, lines 137-140: the push to the origin and the response.
push(t) ==
    /\ th[t].pc = "push"
    /\ IF Falsy(config.CARDDAV_URL)
       THEN /\ th' = Respond(t, 204, << >>, << >>)
            /\ UNCHANGED e2e
       ELSE \E po \in PushOutcomes :
              /\ th' = [Respond(t, PutStatus(po), << >>, << >>) EXCEPT
                          ![t].pushed = Some([name |-> VcfName(th[t].uid),
                                              data |-> th[t].data,
                                              outcome |-> po])]
              /\ e2e' = (e2e /\ PutStatus(po) = 204)
    /\ UNCHANGED << config, serial, phase, hrefs, idx, files, remote, restarts,
                    faults, syncStart, outcome, prevEnd, wrote >>

\* The response is sent and the thread is idle again.
Return(t) ==
    /\ th[t].pc = "done"
    /\ th' = [th EXCEPT ![t] = Idle]
    /\ UNCHANGED << config, serial, phase, hrefs, idx, files, remote, restarts,
                    faults, syncStart, outcome, prevEnd, wrote, e2e >>

Next ==
    \/ SyncBegin
    \/ SyncFetch
    \/ SyncFinish
    \/ Serve
    \/ Restart
    \/ \E t \in Threads : Request(t)
    \/ \E t \in Threads : options_root(t)
    \/ \E t \in Threads : propfind_root(t)
    \/ \E t \in Threads : get_contact(t)
    \/ \E t \in Threads : send_file(t)
    \/ \E t \in Threads : put_contact(t)
    \/ \E t \in Threads : write_text(t)
    \/ \E t \in Threads : push(t)
    \/ \E t \in Threads : Return(t)

Spec == Init /\ [][Next]_vars

SpecThreaded == InitThreaded /\ [][Next]_vars

(***************************************************************************)
(* The properties.                                                         *)
(***************************************************************************)
Range(f) == { f[x] : x \in DOMAIN f }

\* Thread t holds the response of a request the gate let through.
Served(t, method) ==
    th[t].pc = "done" /\ th[t].method = method /\ th[t].status # 401

\* C1 (as claimed): read-after-write.  With the requests served one at a
\* time, a GET of an identifier whose file was last written by a PUT answers
\* 200 with exactly the bytes that PUT received, whatever became of the push.
C1_ReadAfterWrite ==
    \A t \in Threads :
        LET name == VcfName(th[t].uid)
        IN  ( /\ Served(t, "GET")
              /\ name \in DOMAIN wrote
              /\ wrote[name].src = "put" )
            => th[t].status = 200 /\ th[t].out = wrote[name].raw

\* C2 (as claimed): a PUT the gate lets through is answered 204 unless the
\* local storage failed, whatever the outcome of the push.
C2_PutAnswers204 ==
    \A t \in Threads :
        (Served(t, "PUT") /\ ~th[t].storageError) => th[t].status = 204

(***************************************************************************)
(* The sync.  While sync_remote runs and once it has returned (phase       *)
(* "sync", "synced"), syncStart is the directory as the run found it,      *)
(* remote holds the origin's answers to the run and, after a run that was  *)
(* cut short, idx is the position of the href it stopped at.               *)
(***************************************************************************)
InSync == phase \in {"sync", "synced", "crashed"}

\* What the origin answered to the PROPFIND of this run, if anything.
Discovery == remote.disc

\* The file names of the origin's listing: the last segment of every href
\* of the multistatus body, none when the PROPFIND got no answer.
ListedNames ==
    IF Discovery = None \/ Discovery[1].error THEN { }
    ELSE { h.stem \o h.ext : h \in Range(Discovery[1].hrefs) }

\* dir holds under name what start holds (both nothing, or the same bytes).
SameEntry(dir, start, name) ==
    /\ Exists(dir, name) <=> Exists(start, name)
    /\ Exists(dir, name) => dir[name] = start[name]

\* C3: cache monotonicity under sync.  Throughout a run and however it
\* ends, every file that was there when the run began and whose name is not
\* in the origin's listing is still there with the same bytes.
C3_SyncKeepsUnlisted ==
    InSync =>
        \A name \in DOMAIN syncStart :
            name \notin ListedNames =>
                Exists(files, name) /\ files[name] = syncStart[name]

\* A run that completed and wrote a listed file, in a directory that held a
\* file the origin does not list.
C3_Witness ==
    /\ phase = "synced"
    /\ outcome = "complete"
    /\ \E name \in DOMAIN syncStart : name \notin ListedNames
    /\ \E name \in ListedNames : ~SameEntry(files, syncStart, name)

\* The PROPFIND of this run got a transport error or a status outside
\* 200..299.
DiscoveryFailure ==
    /\ phase \in {"sync", "synced", "crashed"}
    /\ Discovery # None
    /\ Discovery[1].error \/ Discovery[1].status \notin 200..299

\* C4: fail-soft discovery.  After a PROPFIND that got a transport error or
\* a status outside 200..299, sync_remote has returned without raising, has
\* fetched nothing and has left the directory as it found it.
C4_FailSoftDiscovery ==
    DiscoveryFailure =>
        /\ phase = "synced"
        /\ DOMAIN remote.fetch = { }
        /\ hrefs = << >>
        /\ files = syncStart

\* A failed PROPFIND with a non-empty cache, and with a body that lists a card.
C4_Witness ==
    /\ DiscoveryFailure
    /\ files # EmptyDir
    /\ \E h \in Range(Discovery[1].hrefs) : h.ext = ".vcf"

\* C5: idempotent sync.  When a run directly follows another (no request in
\* between), the origin answers the second as it answered the first and no
\* write to the local storage fails, the second run ends with the directory
\* exactly as the first left it.
C5_IdempotentSync ==
    (phase = "synced" /\ prevEnd # None /\ outcome # "write_error")
        => files = prevEnd[1]

\* A second run in a row that fetched two cards with a 200, of which one
\* under a name that is written twice.
C5_Witness ==
    /\ phase = "synced"
    /\ prevEnd # None
    /\ outcome = "complete"
    /\ Len(hrefs) = 2
    /\ \A i \in 1..2 : remote.fetch[hrefs[i]].status = 200
    /\ HrefName(hrefs[1]) = HrefName(hrefs[2])
    /\ remote.fetch[hrefs[1]].card # remote.fetch[hrefs[2]].card

\* The run was cut short at hrefs[idx]: by a transport error of its fetch
\* or by a failure of the write of its file.
CutShort == phase \in {"synced", "crashed"} /\ outcome \in {"fetch_error", "write_error"}

\* The positions before idx whose href has the file name `name` and whose
\* fetch answered 200: the writes of `name` this run completed.
WritesBefore(name) ==
    { j \in 1..(idx - 1) :
        HrefName(hrefs[j]) = name /\ remote.fetch[hrefs[j]].status = 200 }

Max(S) == CHOOSE x \in S : \A y \in S : y <= x

\* C6: sync_remote never raises.  After a run that was cut short, every
\* file written earlier in the run holds what its last write put there, and
\* every other file is as it was before the run; the one file whose write
\* failed is left out.
C6_SyncFailSoft ==
    /\ phase # "crashed"
    /\ CutShort =>
         \A name \in DOMAIN files \cup DOMAIN syncStart \cup VcfNames :
            IF outcome = "write_error" /\ name = HrefName(hrefs[idx]) THEN TRUE
            ELSE IF WritesBefore(name) # { }
            THEN /\ Exists(files, name)
                 /\ files[name] =
                      EncodeUtf8(ResponseText(remote.fetch[hrefs[Max(WritesBefore(name))]].card))
            ELSE SameEntry(files, syncStart, name)

\* A run cut short at its second href, after it has given the first file
\* new bytes, with another file in the directory.
C6_Witness ==
    /\ CutShort
    /\ idx = 2
    /\ WritesBefore(HrefName(hrefs[1])) # { }
    /\ ~SameEntry(files, syncStart, HrefName(hrefs[1]))
    /\ HrefName(hrefs[2]) # HrefName(hrefs[1])
    /\ Exists(syncStart, HrefName(hrefs[2]))

(***************************************************************************)
(* The protocol surface.                                                   *)
(***************************************************************************)
\* The identifiers of the Record Store: the stems of the files.
StoreUids == { u \in Stems : Exists(files, VcfName(u)) }

\* A listing with one entry /<identifier>.vcf per identifier of the store,
\* and nothing else.
ListsTheStore(listing) ==
    /\ \A i, j \in DOMAIN listing : listing[i] = listing[j] => i = j
    /\ Range(listing) = { "/" \o u \o ".vcf" : u \in StoreUids }

MissingIs404 ==
    \A t \in Threads :
        (Served(t, "GET") /\ th[t].uid \notin StoreUids)
            => th[t].status = 404 /\ th[t].out = << >> /\ th[t].pushed = None

\* No step of a GET changes the directory or reaches the origin.
GetStepChangesNothing ==
    \A t \in Threads :
        (th[t].method = "GET" /\ th'[t] # th[t])
            => files' = files /\ remote' = remote /\ th'[t].pushed = None

\* C8: a GET of an identifier that is not in the store answers 404, not a
\* payload and not a server error, changes nothing in the store and sends
\* nothing to the origin.
C8_GetMissingIs404 == []MissingIs404 /\ [][GetStepChangesNothing]_vars

\* A GET answered 404 by a server that has an origin and a non-empty store.
C8_Witness ==
    \E t \in Threads :
        /\ Served(t, "GET")
        /\ th[t].status = 404
        /\ files # EmptyDir
        /\ ~Falsy(config.CARDDAV_URL)

PairConfigured == ~Falsy(config.LOCAL_USERNAME) /\ ~Falsy(config.LOCAL_PASSWORD)
NothingConfigured == Falsy(config.LOCAL_USERNAME) /\ Falsy(config.LOCAL_PASSWORD)

Matching(auth) ==
    /\ auth # None
    /\ config.LOCAL_USERNAME = Some(auth[1][1])
    /\ config.LOCAL_PASSWORD = Some(auth[1][2])

\* Thread t's request was answered by the challenge and did nothing else.
Challenged(t) ==
    /\ th[t].pc = "done"
    /\ th[t].status = 401
    /\ th[t].out = << >>
    /\ th[t].listing = << >>
    /\ th[t].pushed = None

GateDecides ==
    \A t \in Threads :
        th[t].pc # "idle" =>
            /\ (PairConfigured /\ ~Matching(th[t].auth)) => Challenged(t)
            /\ (PairConfigured /\ Matching(th[t].auth)) => th[t].status # 401
            /\ NothingConfigured => th[t].status # 401

\* The steps of a challenged request (its arrival, its return) change
\* neither the directory nor what the origin has been asked.
ChallengeChangesNothing ==
    \A t \in Threads :
        ((th[t].status = 401 \/ th'[t].status = 401) /\ th'[t] # th[t])
            => files' = files /\ remote' = remote /\ wrote' = wrote

\* C9: the authentication gate.  With a local credential pair configured, a
\* request of any of the four routes without credentials or with other
\* credentials is answered 401 and touches neither the store nor the origin,
\* and a request with the pair is served; with no local credentials
\* configured every request is served.
C9_AuthGate == []GateDecides /\ [][ChallengeChangesNothing]_vars

\* A PUT with a wrong password, challenged by a server with a pair
\* configured, an origin and a non-empty store.
C9_Witness ==
    \E t \in Threads :
        /\ PairConfigured
        /\ Challenged(t)
        /\ th[t].method = "PUT"
        /\ th[t].auth = Some(<<"admin", "wrong">>)
        /\ files # EmptyDir
        /\ ~Falsy(config.CARDDAV_URL)

\* C10 (as claimed): the end-to-end trace.  From an empty store, after a
\* startup sync in which every fetch answered 200 and PUTs that were all
\* answered 204, a PROPFIND lists exactly the names the sync fetched and the
\* identifiers that were PUT, and a GET of a listed identifier returns the
\* bytes of the latest PUT to it, or the bytes the origin sent for it if it
\* was never PUT.
C10_EndToEnd ==
    \A t \in Threads :
        e2e =>
            /\ Served(t, "PROPFIND") =>
                 /\ \A i, j \in DOMAIN th[t].listing :
                        th[t].listing[i] = th[t].listing[j] => i = j
                 /\ Range(th[t].listing) = { "/" \o n : n \in DOMAIN wrote }
            /\ Served(t, "GET") =>
                 IF VcfName(th[t].uid) \in DOMAIN wrote
                 THEN /\ th[t].status = 200
                      /\ th[t].out = wrote[VcfName(th[t].uid)].raw
                 ELSE th[t].status = 404

(***************************************************************************)
(* Concurrent requests (SpecThreaded: two worker threads, whose steps      *)
(* interleave).                                                            *)
(***************************************************************************)
\* What a file holds once a write_text of the server has returned: the
\* stored form of a PUT body or of a card of the origin.
StoredPut(body) == EncodeUtf8(GetDataAsText(body))
StoredCard(card) == EncodeUtf8(ResponseText(card))
CompletePayloads ==
    { StoredPut(b) : b \in PutBodies } \cup { StoredCard(c) : c \in Cards }

\* C11 (as claimed): reads and writes of a record are atomic.  As long as
\* no local-storage failure has occurred, a GET answers 404 or answers 200
\* with a complete payload (one a PUT or the sync has written in full),
\* never with an empty or partly written one, whatever PUT runs beside it.
C11_AtomicReadWrite ==
    \A t \in Threads :
        (Served(t, "GET") /\ faults = 0)
            => \/ th[t].status = 404
               \/ th[t].status = 200 /\ th[t].out \in CompletePayloads

\* Both threads hold the response of a PUT to the same identifier, and
\* neither met a local-storage failure.
BothPutsDone(uid) ==
    /\ faults = 0
    /\ \A t \in Threads :
         /\ Served(t, "PUT")
         /\ th[t].uid = uid
         /\ ~th[t].storageError

\* C12 (as claimed): last write wins.  Once two PUTs to the same identifier
\* that ran side by side have both completed, the file of the identifier
\* holds the payload of one of them (the body as received, or as the text
\* round trip of put_contact stores it), never a mixture of the two.
C12_LastWriteWins ==
    \A uid \in Uids :
        BothPutsDone(uid) =>
            /\ Exists(files, VcfName(uid))
            /\ \E t \in Threads :
                 files[VcfName(uid)] \in { th[t].body, StoredPut(th[t].body) }

(***************************************************************************)
(* The push.  th[t].pushed is the one request put_contact has sent to the  *)
(* origin for thread t's PUT, with what became of it; nothing else in the  *)
(* server ever sends a record to the origin, so the origin holds a payload *)
(* of this server exactly when the push of its PUT had the outcome "ok".   *)
(***************************************************************************)
OriginConfigured == ~Falsy(config.CARDDAV_URL)

\* Thread t's PUT has written its payload to the store and has completed.
PutStored(t) == Served(t, "PUT") /\ ~th[t].storageError

\* The origin has accepted from thread t's PUT the payload that the store
\* holds for its identifier.
OriginHoldsStored(t) ==
    /\ th[t].pushed # None
    /\ th[t].pushed[1].outcome = "ok"
    /\ th[t].pushed[1].name = VcfName(th[t].uid)
    /\ Exists(files, VcfName(th[t].uid))
    /\ EncodeUtf8(th[t].pushed[1].data) = files[VcfName(th[t].uid)]

\* C13 (as claimed): the cache is an eventually-pushed mirror.  With an
\* origin configured and the requests served one at a time, once a PUT that
\* has written its payload has completed, the origin holds for its
\* identifier the payload the store holds.
C13_EventuallyPushed ==
    \A t \in Threads :
        (OriginConfigured /\ PutStored(t)) => OriginHoldsStored(t)

\* The step of thread t that issues the push (or finds no origin to push
\* to) and ends the handler.
PushStep(t) == th[t].pc = "push" /\ th'[t].pc = "done"

\* When the push is issued the store already holds the payload, no push has
\* been issued for this PUT before, the push carries the file name of the
\* identifier and the text that was written, and the step leaves the store
\* as it is whatever the outcome.
WriteThenPush ==
    \A t \in Threads :
        PushStep(t) =>
            /\ Exists(files, VcfName(th[t].uid))
            /\ files[VcfName(th[t].uid)] = EncodeUtf8(th[t].data)
            /\ th[t].pushed = None
            /\ files' = files
            /\ IF OriginConfigured
               THEN /\ th'[t].pushed # None
                    /\ th'[t].pushed[1].name = VcfName(th[t].uid)
                    /\ EncodeUtf8(th'[t].pushed[1].data) = files[VcfName(th[t].uid)]
               ELSE th'[t].pushed = None

\* A push that has been issued is the only one of its request: the thread
\* holds the response, and its next step returns it.
OnePushPerPut ==
    \A t \in Threads :
        (th[t].pushed # None /\ th'[t] # th[t])
            => th[t].pc = "done" /\ th'[t] = Idle

\* Whatever became of the push, the completed PUT has left its payload in
\* the store.
PushKeepsWrite ==
    \A t \in Threads :
        PutStored(t) =>
            /\ Exists(files, VcfName(th[t].uid))
            /\ files[VcfName(th[t].uid)] = StoredPut(th[t].body)
            /\ th[t].pushed # None => th[t].pushed[1].data = GetDataAsText(th[t].body)

\* C14: write-then-push ordering.  With the requests served one at a time,
\* in every PUT the store is updated before the push is issued; the push
\* carries the identifier and the payload of the local write; at most one
\* push is issued per PUT; and a push that failed does not roll the local
\* write back.
C14_WriteThenPush ==
    /\ []PushKeepsWrite
    /\ [][WriteThenPush /\ OnePushPerPut]_vars

\* A completed PUT whose push met a transport error, with its payload in
\* the store.
C14_Witness ==
    \E t \in Threads :
        /\ PutStored(t)
        /\ th[t].pushed # None
        /\ th[t].pushed[1].outcome = "transport_error"
        /\ files[VcfName(th[t].uid)] = StoredPut(th[t].body)
        /\ th[t].body = <<255>>

(***************************************************************************)
(* Startup.                                                                *)
(***************************************************************************)
\* A step of sync_remote.
SyncStep == phase \in {"boot", "sync"} /\ (phase' # phase \/ idx' # idx)

\* A step of the handler of thread t.
HandlerStep(t) == th'[t] # th[t]

\* A request is handled only by the serving process, after sync_remote has
\* returned.
HandledWhileServing ==
    \A t \in Threads : th[t].pc # "idle" => phase = "serving"

\* The order of a start: boot, the one run of sync_remote, its return, the
\* server; only a new start (one more restart) leads back to boot.
StartupOrder ==
    /\ phase = "boot" => phase' \in {"boot", "sync", "synced"}
    /\ phase = "sync" => phase' \in {"sync", "synced"}
    /\ phase = "synced" => phase' \in {"synced", "serving", "boot"}
    /\ phase = "serving" => phase' \in {"serving", "boot"}
    /\ (phase # "boot" /\ phase' = "boot") => restarts' = restarts + 1
    /\ restarts' # restarts => phase' = "boot"

\* No step of sync_remote happens while a handler runs or together with a
\* step of one.
SyncAlone ==
    SyncStep => \A t \in Threads : th[t].pc = "idle" /\ ~HandlerStep(t)

\* Once the server is serving, a step changes the store only as a step of a
\* PUT, and only in the file of its identifier.
ServingStoreChangesByPut ==
    (phase = "serving" /\ files' # files) =>
        \E t \in Threads :
            /\ th[t].method = "PUT"
            /\ HandlerStep(t)
            /\ \A n \in DOMAIN files :
                 n # VcfName(th[t].uid) => n \in DOMAIN files' /\ files'[n] = files[n]
            /\ DOMAIN files' \subseteq DOMAIN files \cup { VcfName(th[t].uid) }

\* C15: startup ordering.  sync_remote runs once per start of the process
\* and has returned before the first request is handled; no step of it
\* interleaves with a request handler; once the server is serving the store
\* changes only through PUT requests.
C15_StartupOrdering ==
    /\ []HandledWhileServing
    /\ [][StartupOrder /\ SyncAlone /\ ServingStoreChangesByPut]_vars

\* The second start is serving: its sync has written a file and a PUT has
\* then written another while a second request is being handled.
C15_Witness ==
    /\ phase = "serving"
    /\ restarts = 1
    /\ \E n \in DOMAIN wrote : wrote[n].src = "sync"
    /\ \E n \in DOMAIN wrote : wrote[n].src = "put"
    /\ \A t \in Threads : th[t].pc # "idle"

\* sync_remote has run to the end of its loop.
SyncComplete == phase = "synced" /\ outcome = "complete"

\* The fetch of the href at position i of the listing answered 200.
Fetched200(i) ==
    /\ hrefs[i] \in DOMAIN remote.fetch
    /\ ~remote.fetch[hrefs[i]].error
    /\ remote.fetch[hrefs[i]].status = 200

\* C16 (as claimed): the sync overwrites unconditionally.  After a run of
\* sync_remote that completes, for every href of the listing whose fetch
\* answered 200 the file named by the last segment of the href holds the
\* bytes the origin sent for it, whatever it held before.
C16_SyncOverwrites ==
    SyncComplete =>
        \A i \in DOMAIN hrefs :
            Fetched200(i) =>
                /\ Exists(files, HrefName(hrefs[i]))
                /\ files[HrefName(hrefs[i])] = remote.fetch[hrefs[i]].card.bytes

\* The loop of sync_remote is at the href hrefs[idx], which it fetches next.
AtFetch == phase = "sync" /\ idx <= Len(hrefs)

\* A fetch that answers a status other than 200 changes no file, is no
\* error and leads to the next href; a fetch step that changes a file has
\* been answered 200.  (remote' holds the answer to the fetch of the step.)
Only200Writes ==
    AtFetch =>
        /\ hrefs[idx] \in DOMAIN remote'.fetch
        /\ ( /\ ~remote'.fetch[hrefs[idx]].error
             /\ remote'.fetch[hrefs[idx]].status # 200 )
               => /\ files' = files
                  /\ idx' = idx + 1
                  /\ phase' = "sync"
                  /\ outcome' = outcome
        /\ files' # files
               => /\ ~remote'.fetch[hrefs[idx]].error
                  /\ remote'.fetch[hrefs[idx]].status = 200

\* No later href of the listing with the same file name was answered 200.
LastOfName(i) ==
    \A j \in DOMAIN hrefs :
        (j > i /\ HrefName(hrefs[j]) = HrefName(hrefs[i])) => ~Fetched200(j)

\* A run is cut short only by a transport error or a failed write: a run
\* that met none completes, having fetched every href of the listing and
\* stored (as text) every one that answered 200.
RunGoesOn ==
    /\ (phase = "synced" /\ outcome = "fetch_error")
           => remote.fetch[hrefs[idx]].error
    /\ (phase = "synced" /\ outcome = "write_error")
           => Fetched200(idx)
    /\ SyncComplete =>
         \A i \in DOMAIN hrefs :
             /\ hrefs[i] \in DOMAIN remote.fetch
             /\ ~remote.fetch[hrefs[i]].error
             /\ (Fetched200(i) /\ LastOfName(i)) =>
                    /\ Exists(files, HrefName(hrefs[i]))
                    /\ files[HrefName(hrefs[i])]
                           = StoredCard(remote.fetch[hrefs[i]].card)

\* C17: during the sync a record is written only when its fetch answers
\* status 200.  A fetch that answers any other status, other 2xx values
\* included, leaves the store as it was, is not an error and does not stop
\* the run: the hrefs after it are fetched and, on a 200, stored.
C17_Only200Stored == []RunGoesOn /\ [][Only200Writes]_vars

\* A complete run over two hrefs: the first answered 204 and its file, which
\* was there before the run, is as it was; the second answered 200 and its
\* file, which was not there, is.
C17_Witness ==
    /\ SyncComplete
    /\ Len(hrefs) = 2
    /\ remote.fetch[hrefs[1]].status = 204
    /\ Exists(syncStart, HrefName(hrefs[1]))
    /\ files[HrefName(hrefs[1])] = syncStart[HrefName(hrefs[1])]
    /\ Fetched200(2)
    /\ ~Exists(syncStart, HrefName(hrefs[2]))
    /\ Exists(files, HrefName(hrefs[2]))

(***************************************************************************)
(* The store under all steps.                                              *)
(***************************************************************************)
\* No step removes a file.
NeverShrinks == DOMAIN files \subseteq DOMAIN files'

\* The step creates the file named n or changes what it holds.
Touched(n) == n \notin DOMAIN files \/ files'[n] # files[n]

\* A file is created or changed only by a step of a PUT to its identifier
\* or by the fetch of an href with its name.
OnlyWritersTouch ==
    \A n \in DOMAIN files' :
        Touched(n) =>
            \/ \E t \in Threads :
                 /\ th[t].method = "PUT"
                 /\ VcfName(th[t].uid) = n
                 /\ HandlerStep(t)
            \/ AtFetch /\ HrefName(hrefs[idx]) = n

\* C18: the store never loses an entry.  Over every interleaving of sync
\* runs, restarts and requests, failing ones included, no step makes the
\* set of identifiers in the store smaller, and the payload of an entry
\* changes only in a step of a PUT to its identifier or of the sync's fetch
\* of its identifier.
C18_NeverLosesEntry == [][NeverShrinks /\ OnlyWritersTouch]_vars

\* The second start is serving a store of two entries, one written by the
\* sync and one by a PUT, and a PUT has just failed on the local storage.
C18_Witness ==
    /\ phase = "serving"
    /\ restarts = 1
    /\ DOMAIN files = VcfNames
    /\ \E n \in DOMAIN wrote : wrote[n].src = "sync"
    /\ \E n \in DOMAIN wrote : wrote[n].src = "put"
    /\ \E t \in Threads : th[t].pc = "done" /\ th[t].storageError

\* The step of thread t's PUT in which write_text returns: the write is done.
WriteDone(t) == th[t].pc = "write_text" /\ th'[t].pc = "push"

\* A step of thread t's PUT leaves every other file as it is.
PutFrame(t) ==
    /\ DOMAIN files' \subseteq DOMAIN files \cup { VcfName(th[t].uid) }
    /\ \A n \in DOMAIN files :
         n # VcfName(th[t].uid) => n \in DOMAIN files' /\ files'[n] = files[n]

\* C19 (as claimed): a PUT is an unconditional whole-payload overwrite with
\* no effect on other records.  With the requests served one at a time, no
\* step of a PUT changes the file of another identifier, and when its write
\* is done the store is the store as it was with the identifier mapped to
\* the payload received, whether the entry was there or not.
C19_PutOverwrites ==
    [][\A t \in Threads :
          (th[t].method = "PUT" /\ HandlerStep(t)) =>
              /\ PutFrame(t)
              /\ WriteDone(t) => files' = WithFile(files, VcfName(th[t].uid), th[t].body)
      ]_vars

(***************************************************************************)
(* The reads.                                                              *)
(***************************************************************************)
ReadMethods == {"OPTIONS", "PROPFIND", "GET"}

\* A step of a read request of thread t: its arrival, a step of its handler
\* or its return.
ReadStep(t) ==
    /\ HandlerStep(t)
    /\ th[t].method \in ReadMethods \/ th'[t].method \in ReadMethods

\* The step in which the handler of thread t's read produces its response.
ReadAnswered(t) ==
    /\ ReadStep(t)
    /\ th[t].pc \notin {"idle", "done"}
    /\ th'[t].pc = "done"

\* The response is a function of the request and the store alone.
FromStoreAlone(t) ==
    /\ th'[t].method = "OPTIONS" => th'[t].status = 200 /\ th'[t].out = << >>
    /\ th'[t].method = "PROPFIND" =>
           th'[t].status = 207 /\ ListsTheStore(th'[t].listing)
    /\ th'[t].method = "GET" =>
           IF Exists(files, VcfName(th'[t].uid))
           THEN th'[t].status = 200 /\ th'[t].out = files[VcfName(th'[t].uid)]
           ELSE th'[t].status = 404 /\ th'[t].out = << >>

\* No step of a read changes the store or sends anything to the origin.
ReadsChangeNothing ==
    \A t \in Threads :
        ReadStep(t) =>
            /\ files' = files
            /\ wrote' = wrote
            /\ remote' = remote
            /\ th'[t].pushed = None
            /\ ReadAnswered(t) => FromStoreAlone(t)

\* C20: the reads have no effects.  An OPTIONS request, a listing and a
\* GET, found or not, leave the store as it is and send no request to the
\* origin, and what they answer is determined by the store alone, whether
\* an origin is configured or reachable or not.
C20_ReadsHaveNoEffects == [][ReadsChangeNothing]_vars

\* A GET answered from a file the sync of the second start has written,
\* after which the origin is no longer consulted.
C20_Witness ==
    \E t \in Threads :
        /\ Served(t, "GET")
        /\ th[t].status = 200
        /\ OriginConfigured
        /\ restarts = 1
        /\ VcfName(th[t].uid) \in DOMAIN wrote
        /\ wrote[VcfName(th[t].uid)].src = "sync"
        /\ remote = Unknown

=============================================================================
